---- MODULE Spec2Model ----
(***************************************************************************)
(* superUser: a launcher that starts a process with TrustedInstaller       *)
(* privileges.  The model follows src/superUser.c: the command line parser *)
(* (getArgument, the option loop of wmain), the exit code mapping          *)
(* (getExitCode) and the launch engine (createTrustedInstallerProcess),    *)
(* one action per step of the code.  The functions declared in tokens.h    *)
(* are external to the two source files; their result codes are taken from *)
(* the documented return codes.                                            *)
(***************************************************************************)
EXTENDS Integers, Sequences, FiniteSets, TLC

(***************************************************************************)
(* Bounds of the model                                                     *)
(***************************************************************************)
\* largest number of arguments after the program name
MaxArgs == 3

(***************************************************************************)
(* Strings are sequences of one-character strings; a C string ends with a  *)
(* NUL that is read at position Len+1.                                     *)
(***************************************************************************)
NUL == ""

\* s[i] of the C code (0-based), NUL at and past the end
CharAt(s, i) == IF i + 1 <= Len(s) THEN s[i + 1] ELSE NUL

(***************************************************************************)
(* 32-bit values.  A DWORD is kept as two 16-bit halves so that every      *)
(* value of the type is representable; an int is a signed integer in       *)
(* -2^31 .. 2^31-1.                                                        *)
(***************************************************************************)
Half == 65536

DW(hi, lo) == [hi |-> hi, lo |-> lo]

\* DWORD -> int (the assignment nChildExitCode = dwExitCode)
ToInt32(d) == IF d.hi >= 32768 THEN (d.hi - Half) * Half + d.lo
              ELSE d.hi * Half + d.lo

\* int -> DWORD (the cast (DWORD) -1, the exit code handed to the OS)
ToDWORD(n) == IF n >= 0 THEN DW(n \div Half, n % Half)
              ELSE DW((n \div Half) + Half, n % Half)

(***************************************************************************)
(* Program constants                                                       *)
(***************************************************************************)
EXIT_CODE_BASE == 1000000

\* creation flags of CreateProcessAsUser
CREATE_SUSPENDED == "CREATE_SUSPENDED"
EXTENDED_STARTUPINFO_PRESENT == "EXTENDED_STARTUPINFO_PRESENT"
CREATE_NEW_CONSOLE == "CREATE_NEW_CONSOLE"

\* the default command, L"cmd.exe"
CmdExe == <<"c", "m", "d", ".", "e", "x", "e">>

\* (DWORD) -1, the value WTSGetActiveConsoleSessionId returns without a session
NoSession == ToDWORD(-1)

(***************************************************************************)
(* Result codes of the functions of tokens.h (0 is success)                *)
(***************************************************************************)
acquireSeDebugPrivilegeCodes == {0, 2}
createSystemContextCodes == {0, 5}
getTrustedInstallerProcessCodes == {0, 3}
getTrustedInstallerTokenCodes == {0, 5}

(***************************************************************************)
(* Inputs                                                                  *)
(***************************************************************************)
\* the program name, quoted and with a blank inside
ProgName == <<"\"", "s", " ", "u", "\"">>

\* arguments of the command line
Tokens ==
  { <<"/", "w">>, <<"/", "r">>, <<"/", "s">>, <<"/", "h">>, <<"/", "x">>,
    <<"-", "w", "r">>, <<"/", "s", "v">>, <<"/", "R">>, <<"-">>, <<"c">> }

\* blanks between two arguments
Blanks == { <<" ">>, <<"\t", " ">> }

RECURSIVE Join(_, _)
Join(args, sep) ==
  IF args = <<>> THEN <<>> ELSE sep \o Head(args) \o Join(Tail(args), sep)

ArgLists == UNION { [1..n -> Tokens] : n \in 0..MaxArgs }

CmdLines == { ProgName \o Join(args, sep) : args \in ArgLists, sep \in Blanks }

\* exit statuses of the child
ExitStatuses ==
  { DW(0, 0), DW(0, 1), DW(0, 259), DW(15, 16961), DW(32768, 0),
    DW(65520, 48576), DW(65520, 48575), DW(65520, 48571), DW(65520, 48570),
    DW(65535, 65535) }

\* console session ids
SessionIds == { DW(0, 1), NoSession }

(***************************************************************************)
(* getArgument: the cursor p is an index into the command line, 0 is NULL  *)
(***************************************************************************)
IsBlank(c) == c = " " \/ c = "\t"

\* the loop that skips the program name; i is 0-based
RECURSIVE SkipProgramName(_, _, _)
SkipProgramName(cl, i, bQuote) ==
  IF CharAt(cl, i) = NUL THEN i
  ELSE IF CharAt(cl, i) = "\"" THEN SkipProgramName(cl, i + 1, ~bQuote)
  ELSE IF ~bQuote /\ IsBlank(CharAt(cl, i)) THEN i
  ELSE SkipProgramName(cl, i + 1, bQuote)

RECURSIVE SkipSpaces(_, _)
SkipSpaces(cl, i) ==
  IF IsBlank(CharAt(cl, i)) THEN SkipSpaces(cl, i + 1) ELSE i

RECURSIVE SkipArgument(_, _)
SkipArgument(cl, i) ==
  IF CharAt(cl, i) # NUL /\ ~IsBlank(CharAt(cl, i))
  THEN SkipArgument(cl, i + 1) ELSE i

\* cursor values are kept 1-based (C offset + 1) so that 0 can stand for NULL
getArgument(cl, cur, oldIndex) ==
  LET start == IF cur = 0 THEN SkipProgramName(cl, 0, FALSE) ELSE cur - 1
      pBegin == SkipSpaces(cl, start)
      pEnd == SkipArgument(cl, pBegin)
  IN IF CharAt(cl, pBegin) # NUL
     THEN [found |-> TRUE, argument |-> SubSeq(cl, pBegin + 1, pEnd),
           index |-> pBegin + 1, p |-> pEnd + 1]
     ELSE [found |-> FALSE, argument |-> <<>>,
           index |-> oldIndex, p |-> pBegin + 1]

(***************************************************************************)
(* The option loop of wmain over one argument, from position j             *)
(***************************************************************************)
NoOptions ==
  [bReturnCode |-> FALSE, bSeamless |-> FALSE, bVerbose |-> FALSE,
   bWait |-> FALSE]

\* variant: only the first letter of an option group is looked at
ParseOptions_FirstLetterOnly(arg, j, opts) ==
  LET opt == CharAt(arg, j)
  IN IF opt = NUL THEN [options |-> opts, errCode |-> 0]
     ELSE IF opt = "h" THEN [options |-> opts, errCode |-> -1]
     ELSE IF opt = "r"
       THEN [options |-> [opts EXCEPT !.bReturnCode = TRUE], errCode |-> 0]
     ELSE IF opt = "s"
       THEN [options |-> [opts EXCEPT !.bSeamless = TRUE], errCode |-> 0]
     ELSE IF opt = "v"
       THEN [options |-> [opts EXCEPT !.bVerbose = TRUE], errCode |-> 0]
     ELSE IF opt = "w"
       THEN [options |-> [opts EXCEPT !.bWait = TRUE], errCode |-> 0]
     ELSE [options |-> opts, errCode |-> 1]

RECURSIVE ParseOptions(_, _, _)
ParseOptions(arg, j, opts) ==
  LET opt == CharAt(arg, j)
  IN IF opt = NUL THEN [options |-> opts, errCode |-> 0]
     ELSE IF opt = "h" THEN [options |-> opts, errCode |-> -1]
     ELSE IF opt = "r"
       THEN ParseOptions(arg, j + 1, [opts EXCEPT !.bReturnCode = TRUE])
     ELSE IF opt = "s"
       THEN ParseOptions(arg, j + 1, [opts EXCEPT !.bSeamless = TRUE])
     ELSE IF opt = "v"
       THEN ParseOptions(arg, j + 1, [opts EXCEPT !.bVerbose = TRUE])
     ELSE IF opt = "w"
       THEN ParseOptions(arg, j + 1, [opts EXCEPT !.bWait = TRUE])
     ELSE [options |-> opts, errCode |-> 1]

\* the test "at least two characters, the first one '/' or '-'"
IsOptionArgument(arg) ==
  (CharAt(arg, 0) = "/" \/ CharAt(arg, 0) = "-") /\ CharAt(arg, 1) # NUL

(***************************************************************************)
(* getExitCode                                                             *)
(***************************************************************************)
\* variant: the help code -1 is not turned into 0
getExitCode_HelpNotMapped(code, opts, childExitCode) ==
  IF opts.bReturnCode
  THEN IF code # 0 THEN -(EXIT_CODE_BASE + code) ELSE childExitCode
  ELSE code

\* variant: the exit code of the child is returned whether or not r is set
getExitCode_AlwaysChild(code, opts, childExitCode) ==
  LET c == IF code = -1 THEN 0 ELSE code
  IN IF c # 0
     THEN IF opts.bReturnCode THEN -(EXIT_CODE_BASE + c) ELSE c
     ELSE childExitCode

\* variant: the error code is negated without adding EXIT_CODE_BASE
getExitCode_NoBase(code, opts, childExitCode) ==
  LET c == IF code = -1 THEN 0 ELSE code
  IN IF opts.bReturnCode
     THEN IF c # 0 THEN -c ELSE childExitCode
     ELSE c

getExitCode(code, opts, childExitCode) ==
  LET c == IF code = -1 THEN 0 ELSE code
  IN IF opts.bReturnCode
     THEN IF c # 0 THEN -(EXIT_CODE_BASE + c) ELSE childExitCode
     ELSE c

\* variant: CREATE_SUSPENDED is left out
CreationFlags_NotSuspended(opts) ==
  IF ~opts.bSeamless
  THEN {EXTENDED_STARTUPINFO_PRESENT, CREATE_NEW_CONSOLE}
  ELSE {}

\* variant: the flags are set in both modes
CreationFlags_Always(opts) ==
  {CREATE_SUSPENDED, EXTENDED_STARTUPINFO_PRESENT, CREATE_NEW_CONSOLE}

\* the creation flags chosen before CreateProcessAsUser
CreationFlags(opts) ==
  IF ~opts.bSeamless
  THEN {CREATE_SUSPENDED, EXTENDED_STARTUPINFO_PRESENT, CREATE_NEW_CONSOLE}
  ELSE {}

(***************************************************************************)
(* State                                                                   *)
(***************************************************************************)
VARIABLES
  cmdLine,            \* GetCommandLine()
  p,                  \* the static cursor of getArgument, 0 is NULL
  pwszArgument,       \* the current argument, <<>> is NULL
  pwszArgumentIndex,  \* position of the argument in the command line
  pwszCommandLine,    \* position of the command in the command line, 0 is NULL
  pwszImageName,      \* the writable copy of the command, <<>> before the copy
  options,            \* the program options
  errCode,            \* errCode of wmain
  nChildExitCode,     \* the static int nChildExitCode
  pc,                 \* position in wmain / createTrustedInstallerProcess
  hnd,                \* state of each handle variable: null, open or closed
  closes,             \* number of CloseHandle calls on each acquired handle
  attrList,           \* startupInfo.lpAttributeList: none, init or deleted
  dwCreationFlags,    \* the creation flags passed to CreateProcessAsUser
  bCreateResult,      \* result of CreateProcessAsUser
  dwSessionId,        \* the session id read by WTSGetActiveConsoleSessionId
  child,              \* the child process: its state and its exit status
  calls,              \* the calls made so far, in order
  exitCode            \* the value wmain returned (when pc = "exited")

vars ==
  << cmdLine, p, pwszArgument, pwszArgumentIndex, pwszCommandLine,
     pwszImageName, options, errCode, nChildExitCode, pc, hnd, closes,
     attrList, dwCreationFlags, bCreateResult, dwSessionId, child, calls,
     exitCode >>

parseVars == << p, pwszArgument, pwszArgumentIndex, pwszCommandLine, options >>
launchVars ==
  << hnd, closes, attrList, dwCreationFlags, bCreateResult, dwSessionId,
     nChildExitCode >>

Handles == {"hTIProcess", "hTIToken", "hProcessToken", "hProcess", "hThread"}

\* the value of a handle variable as it is passed to a call
HandleValue(h) == IF hnd[h] = "null" THEN "NULL" ELSE h

Call(op, arg) == [op |-> op, arg |-> arg]

\* CloseHandle( h ): a NULL handle closes nothing
CloseHandle(table, h) ==
  IF table[h] = "null" THEN table ELSE [table EXCEPT ![h] = "closed"]

CountClose(counts, h) ==
  IF hnd[h] = "null" THEN counts ELSE [counts EXCEPT ![h] = @ + 1]

\* the state when wmain is entered with one of the given command lines
StartWith(lines) ==
  /\ cmdLine \in lines
  /\ p = 0
  /\ pwszArgument = <<>>
  /\ pwszArgumentIndex = 0
  /\ pwszCommandLine = 0
  /\ pwszImageName = <<>>
  /\ options = NoOptions
  /\ errCode = 0
  /\ nChildExitCode = 0
  /\ pc = "parse"
  /\ hnd = [h \in Handles |-> "null"]
  /\ closes = [h \in Handles |-> 0]
  /\ attrList = "none"
  /\ dwCreationFlags = {}
  /\ bCreateResult = FALSE
  /\ dwSessionId = DW(0, 0)
  /\ child = [state |-> "none", status |-> DW(0, 0)]
  /\ calls = <<>>
  /\ exitCode = 0

Init == StartWith(CmdLines)

(***************************************************************************)
(* wmain: the parsing loop, one argument per step                          *)
(***************************************************************************)
\* the next argument is an option group made of r, s, v, w only
ParseOptionArgument ==
  /\ pc = "parse"
  /\ LET a == getArgument(cmdLine, p, pwszArgumentIndex)
         r == ParseOptions(a.argument, 1, options)
     IN /\ a.found
        /\ IsOptionArgument(a.argument)
        /\ r.errCode = 0
        /\ p' = a.p
        /\ pwszArgument' = a.argument
        /\ pwszArgumentIndex' = a.index
        /\ options' = r.options
  /\ UNCHANGED << cmdLine, pwszCommandLine, pwszImageName, errCode, pc,
                  launchVars, child, calls, exitCode >>

\* the option h is met: help is printed and parsing stops
ParseHelp ==
  /\ pc = "parse"
  /\ LET a == getArgument(cmdLine, p, pwszArgumentIndex)
         r == ParseOptions(a.argument, 1, options)
     IN /\ a.found
        /\ IsOptionArgument(a.argument)
        /\ r.errCode = -1
        /\ p' = a.p
        /\ pwszArgument' = a.argument
        /\ pwszArgumentIndex' = a.index
        /\ options' = r.options
        /\ errCode' = r.errCode
  /\ calls' = Append(calls, Call("printHelp", ""))
  /\ pc' = "done_params"
  /\ UNCHANGED << cmdLine, pwszCommandLine, pwszImageName, launchVars, child,
                  exitCode >>

\* an unknown option is met: parsing stops with error 1
ParseInvalidOption ==
  /\ pc = "parse"
  /\ LET a == getArgument(cmdLine, p, pwszArgumentIndex)
         r == ParseOptions(a.argument, 1, options)
     IN /\ a.found
        /\ IsOptionArgument(a.argument)
        /\ r.errCode = 1
        /\ p' = a.p
        /\ pwszArgument' = a.argument
        /\ pwszArgumentIndex' = a.index
        /\ options' = r.options
        /\ errCode' = r.errCode
  /\ calls' = Append(calls, Call("printError", "Invalid option"))
  /\ pc' = "done_params"
  /\ UNCHANGED << cmdLine, pwszCommandLine, pwszImageName, launchVars, child,
                  exitCode >>

\* the first argument that is not an option starts the command
ParseCommand ==
  /\ pc = "parse"
  /\ LET a == getArgument(cmdLine, p, pwszArgumentIndex)
     IN /\ a.found
        /\ ~IsOptionArgument(a.argument)
        /\ p' = a.p
        /\ pwszArgument' = a.argument
        /\ pwszArgumentIndex' = a.index
        /\ pwszCommandLine' = a.index
  /\ pc' = "done_params"
  /\ UNCHANGED << cmdLine, pwszImageName, options, errCode, launchVars,
                  child, calls, exitCode >>

\* no argument is left
ParseEnd ==
  /\ pc = "parse"
  /\ LET a == getArgument(cmdLine, p, pwszArgumentIndex)
     IN /\ ~a.found
        /\ p' = a.p
        /\ pwszArgument' = a.argument
        /\ pwszArgumentIndex' = a.index
  /\ pc' = "done_params"
  /\ UNCHANGED << cmdLine, pwszCommandLine, pwszImageName, options, errCode,
                  launchVars, child, calls, exitCode >>

(***************************************************************************)
(* wmain after done_params                                                 *)
(***************************************************************************)
\* variant: only r is checked against w
OptionsConsistent_ReturnCodeOnly(opts) ==
  ~(opts.bReturnCode /\ ~opts.bWait)

\* the consistency of the options: r and s need w
OptionsConsistent(opts) ==
  ~((opts.bReturnCode \/ opts.bSeamless) /\ ~opts.bWait)

\* if (errCode) return getExitCode( errCode );
ReturnParseResult ==
  /\ pc = "done_params"
  /\ errCode # 0
  /\ pwszArgument' = <<>>
  /\ exitCode' = getExitCode(errCode, options, nChildExitCode)
  /\ pc' = "exited"
  /\ UNCHANGED << cmdLine, p, pwszArgumentIndex, pwszCommandLine,
                  pwszImageName, options, errCode, launchVars, child,
                  calls >>

\* the consistency check of the options fails
ReturnOptionError ==
  /\ pc = "done_params"
  /\ errCode = 0
  /\ ~OptionsConsistent(options)
  /\ pwszArgument' = <<>>
  /\ calls' = Append(calls, Call("printError", "/r or /s option requires /w"))
  /\ exitCode' = getExitCode(1, options, nChildExitCode)
  /\ pc' = "exited"
  /\ UNCHANGED << cmdLine, p, pwszArgumentIndex, pwszCommandLine,
                  pwszImageName, options, errCode, launchVars, child >>

\* variant: the argument alone is copied, not the rest of the line
CopyCommandLine_ArgumentOnly ==
  /\ pc = "done_params"
  /\ errCode = 0
  /\ OptionsConsistent(options)
  /\ pwszArgument' = <<>>
  /\ pwszImageName' =
       IF pwszCommandLine = 0 THEN CmdExe
       ELSE pwszArgument
  /\ pc' = "acquire"
  /\ UNCHANGED << cmdLine, p, pwszArgumentIndex, pwszCommandLine, options,
                  errCode, launchVars, child, calls, exitCode >>

\* the command (or cmd.exe) is copied to a writable buffer
CopyCommandLine ==
  /\ pc = "done_params"
  /\ errCode = 0
  /\ OptionsConsistent(options)
  /\ pwszArgument' = <<>>
  /\ pwszImageName' =
       IF pwszCommandLine = 0 THEN CmdExe
       ELSE SubSeq(cmdLine, pwszCommandLine, Len(cmdLine))
  /\ pc' = "acquire"
  /\ UNCHANGED << cmdLine, p, pwszArgumentIndex, pwszCommandLine, options,
                  errCode, launchVars, child, calls, exitCode >>

\* how the log shows the result code of a function of tokens.h
Outcome(rc) == IF rc # 0 THEN "failed" ELSE ""

\* variant: the result of acquireSeDebugPrivilege is not tested
AcquireSeDebugPrivilege_Unchecked ==
  /\ pc = "acquire"
  /\ \E rc \in acquireSeDebugPrivilegeCodes :
       /\ errCode' = rc
       /\ calls' = Append(calls, Call("acquireSeDebugPrivilege", Outcome(rc)))
       /\ pc' = IF options.bSeamless THEN "system_context" ELSE "ti_process"
  /\ UNCHANGED << cmdLine, parseVars, pwszImageName, launchVars, child,
                  exitCode >>

\* errCode = acquireSeDebugPrivilege();
AcquireSeDebugPrivilege ==
  /\ pc = "acquire"
  /\ \E rc \in acquireSeDebugPrivilegeCodes :
       /\ errCode' = rc
       /\ calls' = Append(calls, Call("acquireSeDebugPrivilege", Outcome(rc)))
       /\ pc' = IF rc # 0 THEN "wmain_ret"
                ELSE IF options.bSeamless THEN "system_context"
                ELSE "ti_process"
  /\ UNCHANGED << cmdLine, parseVars, pwszImageName, launchVars, child,
                  exitCode >>

\* if (! errCode && options.bSeamless) errCode = createSystemContext();
CreateSystemContext ==
  /\ pc = "system_context"
  /\ \E rc \in createSystemContextCodes :
       /\ errCode' = rc
       /\ calls' = Append(calls, Call("createSystemContext", Outcome(rc)))
       /\ pc' = IF rc # 0 THEN "wmain_ret" ELSE "ti_process"
  /\ UNCHANGED << cmdLine, parseVars, pwszImageName, launchVars, child,
                  exitCode >>

\* HeapFree( pwszImageName ); return getExitCode( errCode );
WmainReturn ==
  /\ pc = "wmain_ret"
  /\ exitCode' = getExitCode(errCode, options, nChildExitCode)
  /\ pc' = "exited"
  /\ UNCHANGED << cmdLine, parseVars, pwszImageName, errCode, launchVars,
                  child, calls >>

(***************************************************************************)
(* createTrustedInstallerProcess, one action per step                      *)
(***************************************************************************)
\* variant: the child is waited for whether or not w is set
AfterCreated_AlwaysWait == "wait"

\* where the code goes once the child exists and is running
AfterCreated == IF options.bWait THEN "wait" ELSE "close_child"

\* errCode = getTrustedInstallerProcess( &hTIProcess ); succeeds
GetTrustedInstallerProcessOk ==
  /\ pc = "ti_process"
  /\ 0 \in getTrustedInstallerProcessCodes
  /\ hnd' = [hnd EXCEPT !["hTIProcess"] = "open"]
  /\ calls' = Append(calls, Call("getTrustedInstallerProcess", ""))
  /\ pc' = IF options.bSeamless THEN "ti_token" ELSE "attr_init"
  /\ UNCHANGED << cmdLine, parseVars, pwszImageName, errCode, closes,
                  attrList, dwCreationFlags, bCreateResult, dwSessionId,
                  nChildExitCode, child, exitCode >>

\* variant: the error is recorded but the function goes on
GetTrustedInstallerProcessFail_Continue ==
  /\ pc = "ti_process"
  /\ \E rc \in getTrustedInstallerProcessCodes \ {0} :
       /\ errCode' = rc
       /\ calls' = Append(calls,
                      Call("getTrustedInstallerProcess", Outcome(rc)))
  /\ pc' = IF options.bSeamless THEN "ti_token" ELSE "attr_init"
  /\ UNCHANGED << cmdLine, parseVars, pwszImageName, launchVars, child,
                  exitCode >>

\* getTrustedInstallerProcess fails: if (errCode) return errCode;
GetTrustedInstallerProcessFail ==
  /\ pc = "ti_process"
  /\ \E rc \in getTrustedInstallerProcessCodes \ {0} :
       /\ errCode' = rc
       /\ calls' = Append(calls,
                      Call("getTrustedInstallerProcess", Outcome(rc)))
  /\ pc' = "wmain_ret"
  /\ UNCHANGED << cmdLine, parseVars, pwszImageName, launchVars, child,
                  exitCode >>

\* errCode = getTrustedInstallerToken( hTIProcess, &hTIToken ); succeeds
GetTrustedInstallerTokenOk ==
  /\ pc = "ti_token"
  /\ 0 \in getTrustedInstallerTokenCodes
  /\ calls' = Append(calls,
                 Call("getTrustedInstallerToken", HandleValue("hTIProcess")))
  /\ hnd' = [hnd EXCEPT !["hTIToken"] = "open"]
  /\ pc' = "session"
  /\ UNCHANGED << cmdLine, parseVars, pwszImageName, errCode, closes,
                  attrList, dwCreationFlags, bCreateResult, dwSessionId,
                  nChildExitCode, child, exitCode >>

\* variant: hTIProcess is not closed on this path
GetTrustedInstallerTokenFail_Leak ==
  /\ pc = "ti_token"
  /\ \E rc \in getTrustedInstallerTokenCodes \ {0} : errCode' = rc
  /\ calls' = Append(calls,
                 Call("getTrustedInstallerToken", HandleValue("hTIProcess")))
  /\ pc' = "wmain_ret"
  /\ UNCHANGED << cmdLine, parseVars, pwszImageName, launchVars, child,
                  exitCode >>

\* getTrustedInstallerToken fails: CloseHandle( hTIProcess ); return errCode;
GetTrustedInstallerTokenFail ==
  /\ pc = "ti_token"
  /\ \E rc \in getTrustedInstallerTokenCodes \ {0} : errCode' = rc
  /\ calls' = calls \o
       << Call("getTrustedInstallerToken", HandleValue("hTIProcess")),
          Call("CloseHandle", HandleValue("hTIProcess")) >>
  /\ hnd' = CloseHandle(hnd, "hTIProcess")
  /\ closes' = CountClose(closes, "hTIProcess")
  /\ pc' = "wmain_ret"
  /\ UNCHANGED << cmdLine, parseVars, pwszImageName, attrList,
                  dwCreationFlags, bCreateResult, dwSessionId,
                  nChildExitCode, child, exitCode >>

\* variant: the session id is tested against 0
HasActiveSession_Zero(id) == id # ToDWORD(0)

\* if (dwSessionId != (DWORD) -1)
HasActiveSession(id) == id # ToDWORD(-1)

\* the session id is queried and, if there is one, set in the token; the
\* result of SetTokenInformation is not looked at
SetTokenSessionId ==
  /\ pc = "session"
  /\ \E id \in SessionIds :
       /\ dwSessionId' = id
       /\ IF HasActiveSession(id)
          THEN \E bSet \in BOOLEAN :
                 calls' = calls \o
                   << Call("WTSGetActiveConsoleSessionId", ""),
                      Call("SetTokenInformation",
                           IF bSet THEN "set" ELSE "failed") >>
          ELSE calls' = Append(calls, Call("WTSGetActiveConsoleSessionId", ""))
  /\ pc' = "ti_privs"
  /\ UNCHANGED << cmdLine, parseVars, pwszImageName, errCode, hnd, closes,
                  attrList, dwCreationFlags, bCreateResult, nChildExitCode,
                  child, exitCode >>

\* setAllPrivileges( hTIToken, options.bVerbose );
SetAllPrivilegesOfToken ==
  /\ pc = "ti_privs"
  /\ calls' = Append(calls, Call("setAllPrivileges", HandleValue("hTIToken")))
  /\ pc' = "create"
  /\ UNCHANGED << cmdLine, parseVars, pwszImageName, errCode, launchVars,
                  child, exitCode >>

\* the attribute list naming hTIProcess as parent is built
InitAttributeList ==
  /\ pc = "attr_init"
  /\ attrList' = "init"
  /\ calls' = calls \o
       << Call("InitializeProcThreadAttributeList", ""),
          Call("UpdateProcThreadAttribute", HandleValue("hTIProcess")) >>
  /\ pc' = "create"
  /\ UNCHANGED << cmdLine, parseVars, pwszImageName, errCode, hnd, closes,
                  dwCreationFlags, bCreateResult, dwSessionId,
                  nChildExitCode, child, exitCode >>

\* CreateProcessAsUser succeeds: the child exists, suspended if asked so
CreateProcessOk ==
  /\ pc = "create"
  /\ dwCreationFlags' = CreationFlags(options)
  /\ calls' = Append(calls,
                 Call("CreateProcessAsUser", HandleValue("hTIToken")))
  /\ bCreateResult' = TRUE
  /\ hnd' = [hnd EXCEPT !["hProcess"] = "open", !["hThread"] = "open"]
  /\ child' = [child EXCEPT !.state =
                 IF CREATE_SUSPENDED \in CreationFlags(options)
                 THEN "suspended" ELSE "running"]
  /\ pc' = "cleanup"
  /\ UNCHANGED << dwSessionId, cmdLine, parseVars, pwszImageName, errCode,
                  closes, attrList, nChildExitCode, exitCode >>

\* CreateProcessAsUser fails
CreateProcessFail ==
  /\ pc = "create"
  /\ dwCreationFlags' = CreationFlags(options)
  /\ calls' = Append(calls,
                 Call("CreateProcessAsUser", HandleValue("hTIToken")))
  /\ bCreateResult' = FALSE
  /\ pc' = "cleanup"
  /\ UNCHANGED << dwSessionId, cmdLine, parseVars, pwszImageName, errCode,
                  hnd, closes, attrList, nChildExitCode, child, exitCode >>

\* variant: the result of CreateProcessAsUser is not tested
AfterRelease_Unchecked ==
  IF ~options.bSeamless THEN "open_token" ELSE AfterCreated

\* where the code goes after the release: if (bCreateResult) ... else ...
AfterRelease ==
  IF ~bCreateResult THEN "create_failed"
  ELSE IF ~options.bSeamless THEN "open_token"
  ELSE AfterCreated

\* the token or the attribute list is released, then hTIProcess
ReleaseAfterCreate ==
  /\ pc = "cleanup"
  /\ IF options.bSeamless
     THEN /\ calls' = calls \o
               << Call("CloseHandle", HandleValue("hTIToken")),
                  Call("CloseHandle", HandleValue("hTIProcess")) >>
          /\ hnd' = CloseHandle(CloseHandle(hnd, "hTIToken"), "hTIProcess")
          /\ closes' = CountClose(CountClose(closes, "hTIToken"), "hTIProcess")
          /\ UNCHANGED attrList
     ELSE /\ calls' = calls \o
               << Call("DeleteProcThreadAttributeList", ""),
                  Call("CloseHandle", HandleValue("hTIProcess")) >>
          /\ attrList' = "deleted"
          /\ hnd' = CloseHandle(hnd, "hTIProcess")
          /\ closes' = CountClose(closes, "hTIProcess")
  /\ pc' = AfterRelease
  /\ UNCHANGED << cmdLine, parseVars, pwszImageName, errCode,
                  dwCreationFlags, bCreateResult, dwSessionId,
                  nChildExitCode, child, exitCode >>

\* OpenProcessToken( processInfo.hProcess, ..., &hProcessToken ); the result
\* is not looked at
OpenChildToken ==
  /\ pc = "open_token"
  /\ calls' = Append(calls, Call("OpenProcessToken", HandleValue("hProcess")))
  /\ \E bOpened \in BOOLEAN :
       hnd' = IF bOpened THEN [hnd EXCEPT !["hProcessToken"] = "open"] ELSE hnd
  /\ pc' = "child_privs"
  /\ UNCHANGED << cmdLine, parseVars, pwszImageName, errCode, closes,
                  attrList, dwCreationFlags, bCreateResult, dwSessionId,
                  nChildExitCode, child, exitCode >>

\* setAllPrivileges( hProcessToken, options.bVerbose );
SetAllPrivilegesOfChild ==
  /\ pc = "child_privs"
  /\ calls' = Append(calls,
                 Call("setAllPrivileges", HandleValue("hProcessToken")))
  /\ pc' = "close_token"
  /\ UNCHANGED << cmdLine, parseVars, pwszImageName, errCode, launchVars,
                  child, exitCode >>

\* variant: the thread is resumed only if the token could be opened
CloseChildToken_ResumeIfOpened ==
  /\ pc = "close_token"
  /\ calls' = Append(calls, Call("CloseHandle", HandleValue("hProcessToken")))
  /\ hnd' = CloseHandle(hnd, "hProcessToken")
  /\ closes' = CountClose(closes, "hProcessToken")
  /\ pc' = IF hnd["hProcessToken"] = "null" THEN AfterCreated ELSE "resume"
  /\ UNCHANGED << cmdLine, parseVars, pwszImageName, errCode, attrList,
                  dwCreationFlags, bCreateResult, dwSessionId,
                  nChildExitCode, child, exitCode >>

\* CloseHandle( hProcessToken );
CloseChildToken ==
  /\ pc = "close_token"
  /\ calls' = Append(calls, Call("CloseHandle", HandleValue("hProcessToken")))
  /\ hnd' = CloseHandle(hnd, "hProcessToken")
  /\ closes' = CountClose(closes, "hProcessToken")
  /\ pc' = "resume"
  /\ UNCHANGED << cmdLine, parseVars, pwszImageName, errCode, attrList,
                  dwCreationFlags, bCreateResult, dwSessionId,
                  nChildExitCode, child, exitCode >>

\* ResumeThread( processInfo.hThread );
ResumeChild ==
  /\ pc = "resume"
  /\ calls' = Append(calls, Call("ResumeThread", HandleValue("hThread")))
  /\ child' = [child EXCEPT !.state =
                 IF @ = "suspended" THEN "running" ELSE @]
  /\ pc' = AfterCreated
  /\ UNCHANGED << cmdLine, parseVars, pwszImageName, errCode, launchVars,
                  exitCode >>

\* the child, once running, ends by itself with some exit status
ChildExits ==
  /\ child.state = "running"
  /\ pc # "exited"
  /\ \E status \in ExitStatuses :
       child' = [state |-> "exited", status |-> status]
  /\ UNCHANGED << cmdLine, parseVars, pwszImageName, errCode, launchVars, pc,
                  calls, exitCode >>

\* variant: the wait can return before the child has ended
WaitForChild_Timeout ==
  /\ pc = "wait"
  /\ calls' = Append(calls,
                 Call("WaitForSingleObject", HandleValue("hProcess")))
  /\ pc' = "get_exit"
  /\ UNCHANGED << cmdLine, parseVars, pwszImageName, errCode, launchVars,
                  child, exitCode >>

\* WaitForSingleObject( processInfo.hProcess, INFINITE ) returns
WaitForChild ==
  /\ pc = "wait"
  /\ child.state = "exited"
  /\ calls' = Append(calls,
                 Call("WaitForSingleObject", HandleValue("hProcess")))
  /\ pc' = "get_exit"
  /\ UNCHANGED << cmdLine, parseVars, pwszImageName, errCode, launchVars,
                  child, exitCode >>

\* if (GetExitCodeProcess( ... )) nChildExitCode = dwExitCode;
GetChildExitCode ==
  /\ pc = "get_exit"
  /\ \E bResult \in BOOLEAN :
       /\ nChildExitCode' =
            IF bResult THEN ToInt32(child.status) ELSE nChildExitCode
       /\ calls' = Append(calls,
            Call("GetExitCodeProcess", IF bResult THEN "read" ELSE "failed"))
  /\ pc' = "close_child"
  /\ UNCHANGED << cmdLine, parseVars, pwszImageName, errCode, hnd, closes,
                  attrList, dwCreationFlags, bCreateResult, dwSessionId,
                  child, exitCode >>

\* CloseHandle( hProcess ); CloseHandle( hThread ); return 0;
CloseChildHandles ==
  /\ pc = "close_child"
  /\ calls' = calls \o
       << Call("CloseHandle", HandleValue("hProcess")),
          Call("CloseHandle", HandleValue("hThread")) >>
  /\ hnd' = CloseHandle(CloseHandle(hnd, "hProcess"), "hThread")
  /\ closes' = CountClose(CountClose(closes, "hProcess"), "hThread")
  /\ errCode' = 0
  /\ pc' = "wmain_ret"
  /\ UNCHANGED << cmdLine, parseVars, pwszImageName, attrList,
                  dwCreationFlags, bCreateResult, dwSessionId,
                  nChildExitCode, child, exitCode >>

\* printError( L"Process creation failed", ... ); return 4;
ReturnCreateFailed ==
  /\ pc = "create_failed"
  /\ calls' = Append(calls, Call("printError", "Process creation failed"))
  /\ errCode' = 4
  /\ pc' = "wmain_ret"
  /\ UNCHANGED << cmdLine, parseVars, pwszImageName, launchVars, child,
                  exitCode >>

Next ==
  \/ ParseOptionArgument
  \/ ParseHelp
  \/ ParseInvalidOption
  \/ ParseCommand
  \/ ParseEnd
  \/ ReturnParseResult
  \/ ReturnOptionError
  \/ CopyCommandLine
  \/ AcquireSeDebugPrivilege
  \/ CreateSystemContext
  \/ GetTrustedInstallerProcessOk
  \/ GetTrustedInstallerProcessFail
  \/ GetTrustedInstallerTokenOk
  \/ GetTrustedInstallerTokenFail
  \/ SetTokenSessionId
  \/ SetAllPrivilegesOfToken
  \/ InitAttributeList
  \/ CreateProcessOk
  \/ CreateProcessFail
  \/ ReleaseAfterCreate
  \/ OpenChildToken
  \/ SetAllPrivilegesOfChild
  \/ CloseChildToken
  \/ ResumeChild
  \/ ChildExits
  \/ WaitForChild
  \/ GetChildExitCode
  \/ CloseChildHandles
  \/ ReturnCreateFailed
  \/ WmainReturn

Spec == Init /\ [][Next]_vars

TypeOK ==
  /\ pc \in {"parse", "done_params", "acquire", "system_context",
             "ti_process", "ti_token", "session", "ti_privs", "attr_init",
             "create", "cleanup", "create_failed", "open_token",
             "child_privs", "close_token", "resume", "wait", "get_exit",
             "close_child", "wmain_ret", "exited"}
  /\ errCode \in -1..5
  /\ child.state \in {"none", "suspended", "running", "exited"}

(***************************************************************************)
(* Vocabulary of the properties                                            *)
(***************************************************************************)
Called(op) == \E i \in 1..Len(calls) : calls[i].op = op

CalledWith(op, arg) ==
  \E i \in 1..Len(calls) : calls[i].op = op /\ calls[i].arg = arg

\* every call of op is preceded by a call of earlier
Precedes(earlier, op) ==
  \A i \in 1..Len(calls) :
    calls[i].op = op => \E j \in 1..(i - 1) : calls[j].op = earlier

OpenHandles == { h \in Handles : hnd[h] = "open" }

\* createTrustedInstallerProcess has returned, or was never entered
Returned == pc \in {"wmain_ret", "exited"}

\* the child was created
Created == Called("CreateProcessAsUser") /\ bCreateResult

\* process creation was attempted and failed
CreateFailed == Called("CreateProcessAsUser") /\ ~bCreateResult

(***************************************************************************)
(* C1                                                                      *)
(***************************************************************************)
\* C1: without the option s the child is created suspended, it does not run
\* before ResumeThread, and ResumeThread comes only after the child's token
\* was asked for (OpenProcessToken) and setAllPrivileges was called on the
\* result, whether or not the token could be opened.
C1_SuspendedUntilCustomized ==
  ~options.bSeamless =>
    /\ Called("CreateProcessAsUser") => CREATE_SUSPENDED \in dwCreationFlags
    /\ child.state \in {"running", "exited"} => Called("ResumeThread")
    /\ \A i \in 1..Len(calls) :
         calls[i].op = "ResumeThread" =>
           \E c, o, s \in 1..(i - 1) :
             /\ c < o /\ o < s
             /\ calls[c].op = "CreateProcessAsUser"
             /\ calls[o].op = "OpenProcessToken"
             /\ calls[s].op = "setAllPrivileges"

\* the child was resumed although its token could not be opened
C1_Witness ==
  /\ ~options.bSeamless
  /\ Called("ResumeThread")
  /\ child.state = "running"
  /\ hnd["hProcessToken"] = "null"

(***************************************************************************)
(* C2                                                                      *)
(***************************************************************************)
WorkOps ==
  {"acquireSeDebugPrivilege", "createSystemContext",
   "getTrustedInstallerProcess", "getTrustedInstallerToken",
   "CreateProcessAsUser"}

NoWork == \A i \in 1..Len(calls) : calls[i].op \notin WorkOps

\* exit code 1 as it leaves wmain: mapped when r is set
ArgumentErrorExit ==
  IF options.bReturnCode THEN -(1000000 + 1) ELSE 1

RSWithoutW == (options.bReturnCode \/ options.bSeamless) /\ ~options.bWait

\* C2 as stated: with r or s set and w not set, wmain returns the argument
\* error exit code and does no privilege or process work.
C2_Original ==
  RSWithoutW =>
    /\ NoWork
    /\ pc = "exited" => exitCode = ArgumentErrorExit

\* C2 amended: with r or s set and w not set no privilege or process work is
\* done, and wmain returns the argument error exit code unless parsing ended
\* on the option h, in which case it returns 0.
C2_ArgumentErrorWithoutWait ==
  RSWithoutW =>
    /\ NoWork
    /\ pc = "exited" =>
         exitCode = IF Called("printHelp") THEN 0 ELSE ArgumentErrorExit

\* /s /r without /w has returned the mapped argument error
C2_Witness ==
  /\ pc = "exited"
  /\ options.bSeamless /\ options.bReturnCode /\ ~options.bWait
  /\ CalledWith("printError", "/r or /s option requires /w")
  /\ exitCode = -1000001

(***************************************************************************)
(* C3                                                                      *)
(***************************************************************************)
\* C3: no handle is closed twice; once createTrustedInstallerProcess has
\* returned, every handle it obtained has been closed exactly once, none that
\* it did not obtain has been closed, and the attribute list is gone; while
\* the launcher waits for the child and reads its exit status only the
\* child's process and thread handles are open.
C3_HandlesReleasedOnce ==
  /\ \A h \in Handles :
       /\ closes[h] <= 1
       /\ (closes[h] = 1) <=> (hnd[h] = "closed")
  /\ Returned =>
       /\ OpenHandles = {}
       /\ attrList # "init"
  /\ pc \in {"wait", "get_exit", "close_child"} =>
       /\ OpenHandles = {"hProcess", "hThread"}
       /\ attrList # "init"

\* a seamless launch with wait has returned with its four handles closed
C3_Witness ==
  /\ pc = "exited"
  /\ Called("WaitForSingleObject")
  /\ closes["hTIProcess"] = 1 /\ closes["hTIToken"] = 1
  /\ closes["hProcess"] = 1 /\ closes["hThread"] = 1

(***************************************************************************)
(* C4                                                                      *)
(***************************************************************************)
\* C4: with the option s the process is created without the new-console,
\* suspended and extended-startup-info flags, no attribute list is built,
\* the child's token is never opened or customized and the thread is never
\* resumed; the token passed to CreateProcessAsUser is hTIToken, obtained and
\* passed through setAllPrivileges before.
C4_SeamlessCreation ==
  options.bSeamless =>
    /\ dwCreationFlags = {}
    /\ attrList = "none"
    /\ ~Called("InitializeProcThreadAttributeList")
    /\ ~Called("UpdateProcThreadAttribute")
    /\ ~Called("OpenProcessToken")
    /\ ~Called("ResumeThread")
    /\ hnd["hProcessToken"] = "null"
    /\ child.state # "suspended"
    /\ \A i \in 1..Len(calls) :
         /\ calls[i].op = "setAllPrivileges" => calls[i].arg = "hTIToken"
         /\ calls[i].op = "CreateProcessAsUser" =>
              /\ calls[i].arg = "hTIToken"
              /\ \E g, s \in 1..(i - 1) :
                   /\ g < s
                   /\ calls[g].op = "getTrustedInstallerToken"
                   /\ calls[s] = Call("setAllPrivileges", "hTIToken")

\* a seamless child has been created
C4_Witness ==
  /\ options.bSeamless
  /\ Created
  /\ child.state = "running"

(***************************************************************************)
(* C5                                                                      *)
(***************************************************************************)
\* C5: when getTrustedInstallerProcess fails, createTrustedInstallerProcess
\* returns at once with error code 3: no handle and no attribute list has
\* been acquired and nothing was called after the service locator.
C5_ServiceFailureAbort ==
  (Called("getTrustedInstallerProcess") /\ hnd["hTIProcess"] = "null") =>
    /\ Returned
    /\ errCode = 3
    /\ \A h \in Handles : hnd[h] = "null" /\ closes[h] = 0
    /\ attrList = "none"
    /\ child.state = "none"
    /\ calls[Len(calls)].op = "getTrustedInstallerProcess"

\* the service locator has failed and wmain has returned
C5_Witness ==
  /\ pc = "exited"
  /\ Called("getTrustedInstallerProcess")
  /\ hnd["hTIProcess"] = "null"
  /\ exitCode = 3

(***************************************************************************)
(* C6                                                                      *)
(***************************************************************************)
\* C6: with w and r set and the child created, wmain has waited for the
\* child and the exit code it returns, taken as a 32-bit value, is the exit
\* status of the child.
C6_Original ==
  (pc = "exited" /\ options.bWait /\ options.bReturnCode /\ Created) =>
    /\ Called("WaitForSingleObject")
    /\ child.state = "exited"
    /\ ToDWORD(exitCode) = child.status

(***************************************************************************)
(* C7                                                                      *)
(***************************************************************************)
\* C7: with w set and r not set, wmain returns 0 whenever the child was
\* created, whatever the exit status of the child.
C7_WaitWithoutReturnCode ==
  (pc = "exited" /\ options.bWait /\ ~options.bReturnCode /\ Created) =>
    exitCode = 0

\* the child ended with a status that was read and is not 0
C7_Witness ==
  /\ pc = "exited"
  /\ options.bWait /\ ~options.bReturnCode
  /\ Created
  /\ child.status # DW(0, 0)
  /\ nChildExitCode # 0
  /\ exitCode = 0

(***************************************************************************)
(* C8                                                                      *)
(***************************************************************************)
\* the arguments that precede the command, in order
RECURSIVE OptionArguments(_, _)
OptionArguments(cl, cur) ==
  LET a == getArgument(cl, cur, 0)
  IN IF a.found /\ IsOptionArgument(a.argument)
     THEN <<a.argument>> \o OptionArguments(cl, a.p)
     ELSE <<>>

\* the letter r occurs in one of the option arguments of the command line
RGiven ==
  LET args == OptionArguments(cmdLine, 0)
  IN \E k \in 1..Len(args) :
       \E j \in 2..Len(args[k]) : args[k][j] = "r"

\* the error code the run failed with, 0 if it did not fail
FailureCode ==
  IF CalledWith("printError", "/r or /s option requires /w") THEN 1
  ELSE IF errCode = -1 THEN 0
  ELSE errCode

\* C8: a run that fails with code c in 1..5 returns -(1000000 + c) when the
\* option r is given among the option arguments, wherever it stands, and c
\* when r is not given.
C8_Original ==
  (pc = "exited" /\ FailureCode \in 1..5) =>
    exitCode = IF RGiven THEN -(1000000 + FailureCode) ELSE FailureCode

(***************************************************************************)
(* C9                                                                      *)
(***************************************************************************)
\* the exit codes of the failed runs when r is set
FailureExitCodes ==
  { getExitCode(c, [NoOptions EXCEPT !.bReturnCode = TRUE], 0) : c \in 1..5 }

\* the exit statuses 2^32 - (1000000 + c), c in 1..5
CollidingStatuses ==
  { DW(65520, 48575), DW(65520, 48574), DW(65520, 48573), DW(65520, 48572),
    DW(65520, 48571) }

\* C9 as stated: with r set, the exit code of a run whose child was created
\* is never one of the exit codes of a failed run.
C9_Original ==
  (pc = "exited" /\ options.bReturnCode /\ Created) =>
    exitCode \notin FailureExitCodes

\* C9 amended: with r set, the exit code of a run whose child was created
\* is not one of the exit codes of a failed run unless the exit status of
\* the child is one of the five values 2^32 - (1000000 + c), c in 1..5.
C9_DistinctUnlessColliding ==
  (pc = "exited" /\ options.bReturnCode /\ Created
     /\ child.status \notin CollidingStatuses) =>
    exitCode \notin FailureExitCodes

\* the child returned 2^32 - 1000006, next to the colliding statuses
C9_Witness ==
  /\ pc = "exited"
  /\ options.bReturnCode
  /\ Created
  /\ child.status = DW(65520, 48570)
  /\ exitCode = -1000006

(***************************************************************************)
(* C10                                                                     *)
(***************************************************************************)
\* C10: when CreateProcessAsUser fails, in both modes, no child handle is
\* ever resumed, waited on, queried or closed; once the release step is
\* over hTIProcess is closed, and so is hTIToken (with s) or the attribute
\* list is deleted (without s); the function returns 4.
C10_CreateFailure ==
  CreateFailed =>
    /\ child.state = "none"
    /\ hnd["hProcess"] = "null" /\ hnd["hThread"] = "null"
    /\ hnd["hProcessToken"] = "null"
    /\ \A i \in 1..Len(calls) :
         /\ calls[i].op \notin {"ResumeThread", "WaitForSingleObject",
                                "GetExitCodeProcess", "OpenProcessToken"}
         /\ calls[i].op = "CloseHandle" =>
              calls[i].arg \in {"hTIProcess", "hTIToken"}
    /\ pc \in {"cleanup", "create_failed", "wmain_ret", "exited"}
    /\ pc # "cleanup" =>
         /\ hnd["hTIProcess"] = "closed"
         /\ options.bSeamless => hnd["hTIToken"] = "closed"
         /\ ~options.bSeamless => attrList = "deleted"
    /\ Returned => errCode = 4
    /\ pc = "exited" => exitCode = getExitCode(4, options, 0)

\* creation failed in seamless mode and wmain has returned
C10_Witness ==
  /\ CreateFailed
  /\ pc = "exited"
  /\ options.bSeamless
  /\ exitCode = 4
(***************************************************************************)
(* C11                                                                     *)
(***************************************************************************)
\* the launch steps, in the order of the code
StepOrder ==
  << "acquireSeDebugPrivilege", "createSystemContext",
     "getTrustedInstallerProcess", "getTrustedInstallerToken",
     "customizeToken", "CreateProcessAsUser" >>

SeamlessOnlySteps ==
  {"createSystemContext", "getTrustedInstallerToken", "customizeToken"}

\* the step a call belongs to; setAllPrivileges on hTIToken is the
\* customization of the privileged token
StepOf(c) ==
  IF c.op = "setAllPrivileges"
  THEN IF c.arg = "hTIToken" THEN "customizeToken" ELSE "none"
  ELSE c.op

IsStep(c) == \E k \in 1..Len(StepOrder) : StepOrder[k] = StepOf(c)

\* the steps taken so far, in order
RECURSIVE StepsOf(_)
StepsOf(log) ==
  IF log = <<>> THEN <<>>
  ELSE IF IsStep(Head(log)) THEN <<StepOf(Head(log))>> \o StepsOf(Tail(log))
  ELSE StepsOf(Tail(log))

\* the steps of a complete launch in the current mode
ExpectedSteps ==
  SelectSeq(StepOrder,
            LAMBDA st : options.bSeamless \/ st \notin SeamlessOnlySteps)

IsPrefix(s, t) ==
  Len(s) <= Len(t) /\ \A i \in 1..Len(s) : s[i] = t[i]

\* the step failed
StepFailed(st) ==
  CASE st = "getTrustedInstallerToken" -> hnd["hTIToken"] = "null"
    [] st = "CreateProcessAsUser" -> ~bCreateResult
    [] st = "customizeToken" -> FALSE
    [] OTHER -> CalledWith(st, "failed")

\* the error code a failure of the step is reported with
StepErrorCodes(st) ==
  CASE st = "acquireSeDebugPrivilege" -> acquireSeDebugPrivilegeCodes \ {0}
    [] st = "createSystemContext" -> createSystemContextCodes \ {0}
    [] st = "getTrustedInstallerProcess" ->
         getTrustedInstallerProcessCodes \ {0}
    [] st = "getTrustedInstallerToken" -> getTrustedInstallerTokenCodes \ {0}
    [] OTHER -> {4}

\* C11: the launch steps are taken in the order privilege acquisition,
\* system context (with s only), service process, token derivation and
\* customization (with s only), process creation, each at most once; a step
\* that failed is the last one taken and its code is the one reported; a
\* launch reported as successful took all of them; without s the process is
\* created with no token.
C11_FailFastOrder ==
  LET steps == StepsOf(calls)
      n == Len(steps)
  IN /\ IsPrefix(steps, ExpectedSteps)
     /\ \A i \in 1..n : StepFailed(steps[i]) => i = n
     /\ (Returned /\ n > 0) =>
          IF StepFailed(steps[n])
          THEN errCode \in StepErrorCodes(steps[n])
          ELSE errCode = 0 /\ steps = ExpectedSteps
     /\ ~options.bSeamless => ~CalledWith("CreateProcessAsUser", "hTIToken")

\* a seamless launch was aborted by the token derivation
C11_Witness ==
  /\ pc = "exited"
  /\ options.bSeamless
  /\ Called("getTrustedInstallerToken")
  /\ hnd["hTIToken"] = "null"
  /\ ~Called("CreateProcessAsUser")
  /\ exitCode = 5
(***************************************************************************)
(* The parser alone, on a larger set of command lines                      *)
(***************************************************************************)
\* longest generated option group
MaxGroup == 1

\* largest number of arguments of the command lines of the parser
MaxParseArgs == 3

FlagLetters == {"r", "s", "v", "w"}

\* every option group of at most n recognized letters after the marker '/'
OptionGroups(n) ==
  { <<"/">> \o g : g \in UNION { [1..k -> FlagLetters] : k \in 1..n } }

ParseTokens ==
  OptionGroups(MaxGroup) \cup
  { <<"-", "r", "w">>, <<"-", "s">>, <<"/", "w", "r", "s">>,
    <<"/", "v", "w", "w">>, <<"/", "h">>, <<"/", "r", "h">>, <<"/", "x">>,
    <<"/", "W">>,
    <<"-", "H">>, <<"c">>, <<"/">> }

ParseCmdLines ==
  { ProgName \o Join(args, <<" ">>) :
      args \in UNION { [1..n -> ParseTokens] : n \in 0..MaxParseArgs } }

InitParse == StartWith(ParseCmdLines)

NextParse ==
  \/ ParseOptionArgument
  \/ ParseHelp
  \/ ParseInvalidOption
  \/ ParseCommand
  \/ ParseEnd
  \/ ReturnParseResult
  \/ ReturnOptionError
  \/ CopyCommandLine

SpecParse == InitParse /\ [][NextParse]_vars

(***************************************************************************)
(* C12                                                                     *)
(***************************************************************************)
\* the letters of the option arguments of the command line
GivenLetters ==
  LET args == OptionArguments(cmdLine, 0)
  IN UNION { { args[k][j] : j \in 2..Len(args[k]) } : k \in 1..Len(args) }

\* C12: when the option arguments are made of r, s, v, w only, in any
\* grouping, order and repetition, parsing ends without error and each
\* option is set exactly when its letter occurs in some option argument.
C12_OptionsAreUnion ==
  LET given == GivenLetters
  IN (pc # "parse" /\ given \subseteq FlagLetters) =>
       /\ errCode = 0
       /\ ~CalledWith("printError", "Invalid option")
       /\ ~Called("printHelp")
       /\ options = [bReturnCode |-> "r" \in given,
                     bSeamless |-> "s" \in given,
                     bVerbose |-> "v" \in given,
                     bWait |-> "w" \in given]

\* /s -rw has been parsed and r, s, w are set
C12_Witness ==
  /\ pc = "done_params"
  /\ cmdLine = ProgName \o <<" ", "/", "s", " ", "-", "r", "w">>
  /\ options = [bReturnCode |-> TRUE, bSeamless |-> TRUE,
                bVerbose |-> FALSE, bWait |-> TRUE]
(***************************************************************************)
(* C13                                                                     *)
(***************************************************************************)
\* the lower case of the upper case option letters
ToLowerChar(c) ==
  CASE c = "H" -> "h"
    [] c = "R" -> "r"
    [] c = "S" -> "s"
    [] c = "V" -> "v"
    [] c = "W" -> "w"
    [] OTHER -> c

LowerCase(s) == [i \in 1..Len(s) |-> ToLowerChar(s[i])]

\* the parsing loop of wmain as a function of the command line: the options
\* and the error code at done_params
RECURSIVE ParseArguments(_, _, _)
ParseArguments(cl, cur, opts) ==
  LET a == getArgument(cl, cur, 0)
  IN IF ~a.found THEN [options |-> opts, errCode |-> 0]
     ELSE IF IsOptionArgument(a.argument)
       THEN LET r == ParseOptions(a.argument, 1, opts)
            IN IF r.errCode # 0 THEN r
               ELSE ParseArguments(cl, a.p, r.options)
     ELSE [options |-> opts, errCode |-> 0]

\* C13: the option letters are case-insensitive: the options and the error
\* code after parsing, and the exit code when wmain returns before the
\* launch, are those of the same command line with the letters H, R, S, V,
\* W in lower case.
C13_Original ==
  LET r == ParseArguments(LowerCase(cmdLine), 0, NoOptions)
      lowerReturns == r.errCode # 0 \/ ~OptionsConsistent(r.options)
  IN pc # "parse" =>
       /\ options = r.options
       /\ errCode = r.errCode
       /\ pc = "acquire" => ~lowerReturns
       /\ pc = "exited" =>
            /\ lowerReturns
            /\ exitCode = getExitCode(IF r.errCode # 0 THEN r.errCode ELSE 1,
                                   r.options, 0)
(***************************************************************************)
(* C14                                                                     *)
(***************************************************************************)
\* position of the first argument that is not an option, 0 if there is none
RECURSIVE CommandIndex(_, _)
CommandIndex(cl, cur) ==
  LET a == getArgument(cl, cur, 0)
  IN IF ~a.found THEN 0
     ELSE IF IsOptionArgument(a.argument) THEN CommandIndex(cl, a.p)
     ELSE a.index

\* the command line has no argument at all
NoArguments ==
  CommandIndex(cmdLine, 0) = 0 /\ OptionArguments(cmdLine, 0) = <<>>

StrategyAFlags ==
  {"CREATE_SUSPENDED", "EXTENDED_STARTUPINFO_PRESENT", "CREATE_NEW_CONSOLE"}

\* C14: without a positional argument the command that is launched is
\* cmd.exe; without any argument the child is created the non-seamless way
\* (suspended, new console, parent attribute, no token), it is never waited
\* for, and once it is created wmain returns 0.
C14_DefaultCommand ==
  /\ (pwszImageName # <<>> /\ CommandIndex(cmdLine, 0) = 0) =>
       pwszImageName = <<"c", "m", "d", ".", "e", "x", "e">>
  /\ NoArguments =>
       /\ options = NoOptions
       /\ pc \notin {"wait", "get_exit", "ti_token", "system_context"}
       /\ ~Called("WaitForSingleObject")
       /\ ~Called("GetExitCodeProcess")
       /\ Called("CreateProcessAsUser") =>
            /\ pwszImageName = <<"c", "m", "d", ".", "e", "x", "e">>
            /\ dwCreationFlags = StrategyAFlags
            /\ attrList # "none"
            /\ CalledWith("CreateProcessAsUser", "NULL")
       /\ (Created /\ Returned) => errCode = 0
       /\ (Created /\ pc = "exited") => exitCode = 0

\* without arguments wmain has returned 0 while the child is still running
C14_Witness ==
  /\ cmdLine = ProgName
  /\ pc = "exited"
  /\ Created
  /\ pwszImageName = CmdExe
  /\ child.state = "running"
  /\ exitCode = 0
(***************************************************************************)
(* C15                                                                     *)
(***************************************************************************)
\* C15: without s, once the child is created the function never fails; by
\* the time it waits for the child or returns, ResumeThread has been called
\* and the child is no longer suspended, and it returns 0, also when the
\* child's token could not be opened.
C15_ResumedBeforeWaitOrReturn ==
  (~options.bSeamless /\ Created) =>
    /\ pc # "create_failed"
    /\ pc \in {"wait", "get_exit", "close_child", "wmain_ret", "exited"} =>
         /\ Called("ResumeThread")
         /\ child.state \in {"running", "exited"}
    /\ Returned => errCode = 0

\* the token could not be opened; the child was resumed, waited for, and
\* the function returned 0
C15_Witness ==
  /\ ~options.bSeamless
  /\ Created
  /\ hnd["hProcessToken"] = "null"
  /\ CalledWith("setAllPrivileges", "NULL")
  /\ Called("WaitForSingleObject")
  /\ pc = "wmain_ret"
  /\ errCode = 0
(***************************************************************************)
(* The launcher as a sequential program that keeps running: every step but *)
(* the end of the child is taken when it can be.  The child is not under   *)
(* the control of the launcher and may run forever.                        *)
(***************************************************************************)
\* largest number of arguments of the command lines of the fair runs
MaxLiveArgs == 2

\* arguments of the command lines of the fair runs
LiveTokens ==
  { <<"/", "w">>, <<"-", "w", "r">>, <<"/", "s">>, <<"/", "h">>,
    <<"/", "x">>, <<"c">> }

LiveCmdLines ==
  { ProgName \o Join(args, <<" ">>) :
      args \in UNION { [1..n -> LiveTokens] : n \in 0..MaxLiveArgs } }

InitLive == StartWith(LiveCmdLines)

\* the steps of the launcher itself
LauncherNext ==
  \/ ParseOptionArgument
  \/ ParseHelp
  \/ ParseInvalidOption
  \/ ParseCommand
  \/ ParseEnd
  \/ ReturnParseResult
  \/ ReturnOptionError
  \/ CopyCommandLine
  \/ AcquireSeDebugPrivilege
  \/ CreateSystemContext
  \/ GetTrustedInstallerProcessOk
  \/ GetTrustedInstallerProcessFail
  \/ GetTrustedInstallerTokenOk
  \/ GetTrustedInstallerTokenFail
  \/ SetTokenSessionId
  \/ SetAllPrivilegesOfToken
  \/ InitAttributeList
  \/ CreateProcessOk
  \/ CreateProcessFail
  \/ ReleaseAfterCreate
  \/ OpenChildToken
  \/ SetAllPrivilegesOfChild
  \/ CloseChildToken
  \/ ResumeChild
  \/ WaitForChild
  \/ GetChildExitCode
  \/ CloseChildHandles
  \/ ReturnCreateFailed
  \/ WmainReturn

SpecLive == InitLive /\ [][Next]_vars /\ WF_vars(LauncherNext)

(***************************************************************************)
(* C16                                                                     *)
(***************************************************************************)
\* the launcher does not wait without w; with w it leaves the wait only
\* when the child has ended, reads the exit status after the wait and
\* closes the child's handles after that; it does not return before the
\* child has ended
C16_WaitOrder ==
  /\ ~options.bWait =>
       /\ pc \notin {"wait", "get_exit"}
       /\ ~Called("WaitForSingleObject")
       /\ ~Called("GetExitCodeProcess")
  /\ Called("WaitForSingleObject") => child.state = "exited"
  /\ Precedes("WaitForSingleObject", "GetExitCodeProcess")
  /\ (options.bWait /\ Created) =>
       /\ \A i \in 1..Len(calls) :
            (/\ calls[i].op = "CloseHandle"
             /\ calls[i].arg \in {"hProcess", "hThread"})
              => \E w, g \in 1..(i - 1) :
                   /\ w < g
                   /\ calls[w].op = "WaitForSingleObject"
                   /\ calls[g].op = "GetExitCodeProcess"
       /\ Returned => child.state = "exited"

\* C16: without w the child is never waited for and its handles are closed
\* at once; with w the launcher blocks until the child has ended, reads the
\* exit status only then and closes the child's handles last; with w and
\* the child created, the launcher returns only if the child has ended, and
\* once the child has ended it does return.
C16_WaitUntilChildExits ==
  /\ []C16_WaitOrder
  /\ (options.bWait /\ Created /\ child.state = "exited") ~> (pc = "exited")

\* the launcher has waited for the child and returned
C16_Witness ==
  /\ options.bWait
  /\ Created
  /\ Called("WaitForSingleObject")
  /\ child.state = "exited"
  /\ closes["hProcess"] = 1
  /\ pc = "exited"
(***************************************************************************)
(* C17                                                                     *)
(***************************************************************************)
\* position k of the command line starts an argument
ArgumentStartsAt(k) ==
  /\ k > Len(ProgName)
  /\ ~IsBlank(cmdLine[k])
  /\ IsBlank(cmdLine[k - 1])

\* the argument that starts at k is an option: a marker and one more
\* character at least
OptionStartsAt(k) ==
  /\ cmdLine[k] \in {"/", "-"}
  /\ k < Len(cmdLine)
  /\ ~IsBlank(cmdLine[k + 1])

\* where the first argument that is not an option starts, 0 if there is none
FirstCommandStart ==
  LET starts == { k \in 1..Len(cmdLine) :
                    ArgumentStartsAt(k) /\ ~OptionStartsAt(k) }
  IN IF starts = {} THEN 0
     ELSE CHOOSE k \in starts : \A m \in starts : k <= m

\* the characters of the arguments that stand before the command
LettersBeforeCommand ==
  LET last == IF FirstCommandStart = 0 THEN Len(cmdLine)
              ELSE FirstCommandStart - 1
  IN { cmdLine[k] : k \in (Len(ProgName) + 1)..last }

\* C17: when parsing ends without help or invalid option, the command is
\* what the command line holds from the first argument that is not an
\* option (no '/' or '-' in front, or the marker alone) to its end, and an
\* option is set only if its letter stands before that argument.
C17_CommandIsRemainder ==
  (pc # "parse" /\ errCode = 0) =>
    /\ pwszCommandLine = FirstCommandStart
    /\ (pwszImageName # <<>> /\ FirstCommandStart # 0) =>
         pwszImageName = SubSeq(cmdLine, FirstCommandStart, Len(cmdLine))
    /\ options.bReturnCode => "r" \in LettersBeforeCommand
    /\ options.bSeamless => "s" \in LettersBeforeCommand
    /\ options.bVerbose => "v" \in LettersBeforeCommand
    /\ options.bWait => "w" \in LettersBeforeCommand

\* the command is `c /w /r` and neither w nor r is set
C17_Witness ==
  /\ cmdLine = ProgName \o <<" ", "c", " ", "/", "w", " ", "/", "r">>
  /\ pc = "acquire"
  /\ pwszImageName = <<"c", " ", "/", "w", " ", "/", "r">>
  /\ options = NoOptions
(***************************************************************************)
(* C18                                                                     *)
(***************************************************************************)
\* the letters of the option arguments, markers left out, in order
RECURSIVE LettersOf(_)
LettersOf(args) ==
  IF args = <<>> THEN <<>> ELSE Tail(Head(args)) \o LettersOf(Tail(args))

\* the first letter of the option arguments that is not r, s, v or w;
\* NUL if there is none
FirstOtherLetter ==
  LET letters == LettersOf(OptionArguments(cmdLine, 0))
      others == { i \in 1..Len(letters) : letters[i] \notin FlagLetters }
  IN IF others = {} THEN NUL
     ELSE letters[CHOOSE i \in others : \A m \in others : i <= m]

\* C18: when h is met before any invalid option, whatever the options set
\* before it and whatever follows it, help is printed, nothing else is
\* called, the launch is never started and wmain returns 0; help is printed
\* in no other case.
C18_HelpExitsZero ==
  /\ (pc # "parse" /\ FirstOtherLetter = "h") =>
       /\ calls = << Call("printHelp", "") >>
       /\ pc \in {"done_params", "exited"}
       /\ pc = "exited" => exitCode = 0
  /\ Called("printHelp") => FirstOtherLetter = "h"

\* help was asked for after r was set without w
C18_Witness ==
  /\ pc = "exited"
  /\ Called("printHelp")
  /\ options.bReturnCode /\ ~options.bWait
  /\ exitCode = 0
(***************************************************************************)
(* C19                                                                     *)
(***************************************************************************)
\* C19: in a seamless launch the session id is queried once the token of
\* TrustedInstaller is there; SetTokenInformation is called if and only if
\* the id is not (DWORD) -1; setAllPrivileges is called on the token in
\* both cases; both come before CreateProcessAsUser; and whatever
\* SetTokenInformation says, the launch goes on to CreateProcessAsUser.
C19_SessionRebind ==
  /\ Called("WTSGetActiveConsoleSessionId") =>
       /\ options.bSeamless
       /\ Called("getTrustedInstallerToken")
       /\ hnd["hTIToken"] # "null"
       /\ Called("SetTokenInformation") <=> dwSessionId # DW(65535, 65535)
  /\ Precedes("WTSGetActiveConsoleSessionId", "SetTokenInformation")
  /\ CalledWith("setAllPrivileges", "hTIToken") =>
       Called("WTSGetActiveConsoleSessionId")
  /\ (options.bSeamless /\ Called("CreateProcessAsUser")) =>
       /\ Called("WTSGetActiveConsoleSessionId")
       /\ Precedes("WTSGetActiveConsoleSessionId", "CreateProcessAsUser")
       /\ Precedes("SetTokenInformation", "CreateProcessAsUser")
            \/ dwSessionId = DW(65535, 65535)
       /\ CalledWith("setAllPrivileges", "hTIToken")
       /\ Precedes("setAllPrivileges", "CreateProcessAsUser")
  /\ (Called("WTSGetActiveConsoleSessionId") /\ Returned) =>
       /\ Called("CreateProcessAsUser")
       /\ errCode = IF bCreateResult THEN 0 ELSE 4

\* the session id could not be set in the token and the child was created
C19_Witness ==
  /\ options.bSeamless
  /\ CalledWith("SetTokenInformation", "failed")
  /\ Created
  /\ pc = "exited"

\* there was no active session and the child was created
C19_NoSessionLaunch ==
  /\ options.bSeamless
  /\ dwSessionId = DW(65535, 65535)
  /\ ~Called("SetTokenInformation")
  /\ Created
(***************************************************************************)
(* C20                                                                     *)
(***************************************************************************)
\* the handles that the step about to be taken passes to a call
HandlesInUse ==
  CASE pc = "ti_token" -> {"hTIProcess"}
    [] pc \in {"session", "ti_privs"} -> {"hTIToken"}
    [] pc = "attr_init" -> {"hTIProcess"}
    [] pc \in {"create", "cleanup"} ->
         IF options.bSeamless THEN {"hTIToken", "hTIProcess"}
         ELSE {"hTIProcess"}
    [] pc = "open_token" -> {"hProcess"}
    [] pc \in {"child_privs", "close_token"} -> {"hProcessToken"}
    [] pc = "resume" -> {"hThread"}
    [] pc \in {"wait", "get_exit"} -> {"hProcess"}
    [] pc = "close_child" -> {"hProcess", "hThread"}
    [] OTHER -> {}

\* C20: every handle that a step of createTrustedInstallerProcess uses or
\* closes was acquired and is still open when the step is taken, and no
\* call was ever given a NULL handle.
C20_Original ==
  /\ \A h \in HandlesInUse : hnd[h] = "open"
  /\ \A i \in 1..Len(calls) :
       calls[i].op \in {"setAllPrivileges", "CloseHandle", "ResumeThread",
                        "WaitForSingleObject", "OpenProcessToken",
                        "getTrustedInstallerToken"}
         => calls[i].arg # "NULL"
====
